---- MODULE Spec2Model ----
(***************************************************************************)
(* Model of the code-execution MCP server (src/code_execution.py) and of   *)
(* the /run endpoint in front of it (src/main.py).                         *)
(*                                                                         *)
(* Every request is a coroutine on one asyncio event loop.  The handlers   *)
(* are "async def" but the Docker calls inside them are ordinary blocking  *)
(* calls: a coroutine that has started runs to its return without giving   *)
(* the loop back.  "current" is the coroutine the loop is executing.       *)
(*                                                                         *)
(* The Docker daemon is the environment: a build succeeds, fails or never  *)
(* completes; a run succeeds, fails or hits the time limit passed to it; a *)
(* detached container starts unless its host port is taken or the start    *)
(* fails, and it may exit later, when Docker removes it (remove=True).     *)
(***************************************************************************)
EXTENDS Integers, Sequences, FiniteSets, TLC

\* ---------------------------------------------------------------- bounds
\* Requests submitted in one behaviour.  Each has a slot of its own; the
\* number of the slot names the call's temp dir, image tag and container.
NTasks == 2

Tasks == 1..NTasks

\* Lines of user code handed to execute_visualization.
MaxCodeLines == 2

\* ------------------------------------------------------ program constants
DefaultTimeout == 30
DefaultHtmlPort == 8080
DefaultReactPort == 3000

\* A key the arguments dict does not hold.
Absent == "absent"
AbsentInt == -1

\* ------------------------------------------------------------- tool names
ExecTools == {"execute_python", "execute_javascript", "execute_visualization"}
ServeTools == {"serve_html", "serve_react"}

\* list_tools: the names of the catalog.
ListedTools ==
    {"execute_python", "execute_javascript", "serve_html", "serve_react",
     "execute_visualization"}

\* list_tools: the enums of execute_visualization's input schema.
VizLibraries == {"matplotlib", "plotly", "seaborn", "bokeh"}
VizFormats == {"png", "svg", "html", "json"}

\* ---------------------------------------------------------------- requests
\* A request as handle_mcp_request reads it.  method/name: Absent when the key
\* is missing.  argkind: "dict", "null" (arguments is None) or Absent (call_tool
\* then uses {}).  payload is the tool's main field (code, html, component):
\* "str", "nonstr" (a JSON value that is not a string) or Absent.
Req(m, n, k, p, l, po, ts) ==
    [method |-> m, name |-> n, argkind |-> k, payload |-> p, library |-> l,
     port |-> po, timeout_seconds |-> ts]

NoReq == Req(Absent, Absent, Absent, Absent, Absent, AbsentInt, AbsentInt)

Call(n, k, p, l, po, ts) == Req("tools/call", n, k, p, l, po, ts)

Requests ==
    {Req("tools/list", Absent, Absent, Absent, Absent, AbsentInt, AbsentInt),
     Req("tools/run", Absent, Absent, Absent, Absent, AbsentInt, AbsentInt),
     Req(Absent, "execute_python", "dict", "str", Absent, AbsentInt, AbsentInt)}
    \cup {Call(n, "dict", "str", Absent, AbsentInt, AbsentInt) :
            n \in {"execute_shell", Absent}}
    \cup {Call("execute_python", "dict", "str", Absent, AbsentInt, ts) :
            ts \in {AbsentInt, 0, 2, 100}}
    \cup {Call("execute_python", k, p, Absent, AbsentInt, AbsentInt) :
            k \in {"dict"}, p \in {"nonstr", Absent}}
    \cup {Call("execute_python", "null", Absent, Absent, AbsentInt, AbsentInt),
          Call("serve_html", Absent, Absent, Absent, AbsentInt, AbsentInt)}
    \cup {Call("execute_javascript", "dict", p, Absent, AbsentInt, AbsentInt) :
            p \in {"str", Absent}}
    \cup {Call("execute_visualization", "dict", p, "matplotlib", AbsentInt, AbsentInt) :
            p \in {"str", "nonstr", Absent}}
    \cup {Call("execute_visualization", "dict", p, l, AbsentInt, AbsentInt) :
            p \in {"nonstr"}, l \in {"seaborn"}}
    \cup {Call("execute_visualization", "dict", "str", Absent, AbsentInt, AbsentInt)}
    \cup {Call("serve_html", "dict", "str", Absent, po, AbsentInt) :
            po \in {AbsentInt, DefaultReactPort}}
    \cup {Call("serve_html", "dict", p, Absent, AbsentInt, AbsentInt) :
            p \in {"nonstr", Absent}}
    \cup {Call("serve_react", "dict", "str", Absent, po, AbsentInt) :
            po \in {AbsentInt, DefaultHtmlPort}}
    \cup {Call("serve_react", "dict", Absent, Absent, AbsentInt, AbsentInt)}

\* ----------------------------------------------------------------- results
\* A value returned by handle_mcp_request: the key of the dict, the fixed
\* part of its text, the interpolated part, and the port of a preview URL.
Res(k, p, d, po) == [key |-> k, prefix |-> p, detail |-> d, port |-> po]

NoResult == Res("none", "", "", 0)

\* An exception leaving handle_mcp_request.
Raised(exc) == Res("raised", "", exc, 0)

Error(prefix, detail) == Res("error", prefix, detail, 0)

Content(prefix, port) == Res("content", prefix, "", port)

Tools == Res("tools", "", "", 0)

NoResponse == [status |-> "none", outputs |-> NoResult]

\* ------------------------------------------------------- pure helpers
\* handle_mcp_request: the branch taken for a method.
MethodBranch(method) ==
    IF method = "tools/list" THEN "list_tools"
    ELSE IF method = "tools/call" THEN "call_tool"
    ELSE "unknown"

\* Variant: call_tool without its execute_visualization branch.
HandlerMissingViz(name) ==
    IF name \in {"execute_python", "execute_javascript", "serve_html",
                 "serve_react"}
    THEN name ELSE "none"

\* Variant: an unlisted name falls through to the first handler.
HandlerDefault(name) ==
    IF name \in {"execute_python", "execute_javascript", "serve_html",
                 "serve_react", "execute_visualization"}
    THEN name ELSE "execute_python"

\* call_tool: the handler a tool name is dispatched to, "none" for the else
\* branch.
Handler(name) ==
    IF name = "execute_python" THEN "execute_python"
    ELSE IF name = "execute_javascript" THEN "execute_javascript"
    ELSE IF name = "serve_html" THEN "serve_html"
    ELSE IF name = "serve_react" THEN "serve_react"
    ELSE IF name = "execute_visualization" THEN "execute_visualization"
    ELSE "none"

\* Variant: execute_visualization reads library with args.get.
SubscriptedLax(tool) == {"payload"}

\* The keys a handler reads with args[...] before it opens its workspace.
Subscripted(tool) ==
    IF tool = "execute_visualization" THEN {"payload", "library"} ELSE {"payload"}

\* The exception a handler raises before "with tempfile.TemporaryDirectory()",
\* "none" when it reaches the with statement.  args[...] on None is a
\* TypeError, on a dict without the key a KeyError; execute_visualization
\* appends its trailer to code with +=, a TypeError unless code is a string.
PrologueException(tool, r) ==
    IF r.argkind = "null" THEN "TypeError"
    ELSE IF r.argkind = Absent \/ \E f \in Subscripted(tool) : r[f] = Absent
         THEN "KeyError"
    ELSE IF /\ tool = "execute_visualization"
            /\ r.library \in {"matplotlib", "plotly"}
            /\ r.payload = "nonstr"
         THEN "TypeError"
    ELSE "none"

\* f.write(code) inside the with statement: a TypeError unless code is a
\* string.  serve_react interpolates the component into an f-string first.
WriteException(tool, r) ==
    IF tool # "serve_react" /\ r.payload = "nonstr" THEN "TypeError" ELSE "none"

\* The fixed text of a handler's results.
ErrorPrefix(tool) ==
    CASE tool \in {"execute_python", "execute_javascript"} -> "Docker execution failed"
      [] tool = "serve_html" -> "Failed to serve HTML"
      [] tool = "serve_react" -> "Failed to serve React"
      [] tool = "execute_visualization" -> "Visualization failed"

SuccessPrefix(tool) ==
    CASE tool = "execute_python" -> "Python execution completed"
      [] tool = "execute_javascript" -> "JavaScript execution completed"
      [] tool = "serve_html" -> "HTML server started"
      [] tool = "serve_react" -> "React app building and starting"
      [] tool = "execute_visualization" -> "Visualization created"

\* Variant: the handler's except passes and the handler falls off its end.
HandlerCatchSwallow(tool, exc) == NoResult

\* "except Exception as e" of a handler, around build and run.
HandlerCatch(tool, exc) == Error(ErrorPrefix(tool), exc)

\* Variant: call_tool without its try.
CallToolNoCatch(exc) == Raised(exc)

\* "except Exception as e" of call_tool, around the whole handler.
CallToolCatch(exc) == Error("Execution failed", exc)

\* Variant: the limit is args.get("timeout_seconds", 30).
RunTimeLimitFromArgs(r) ==
    IF r.timeout_seconds = AbsentInt THEN DefaultTimeout ELSE r.timeout_seconds

\* The timeout keyword passed to containers.run.
RunTimeLimit(r) == DefaultTimeout

\* What the Docker daemon can answer to images.build.
BuildOutcomes == {"built", "build_failed", "build_hung"}

\* Variant: containers.run without the timeout keyword.
RunOutcomesUnbounded == {"ok", "run_failed", "run_hung"}

\* What containers.run(..., timeout=30) without detach can end in.
RunOutcomes == {"ok", "run_failed", "timeout"}

\* Variant: the two defaults exchanged.
ServePortSwapped(tool, r) ==
    IF r.port # AbsentInt THEN r.port
    ELSE IF tool = "serve_html" THEN DefaultReactPort ELSE DefaultHtmlPort

\* args.get("port", default)
ServePort(tool, r) ==
    IF r.port # AbsentInt THEN r.port
    ELSE IF tool = "serve_html" THEN DefaultHtmlPort ELSE DefaultReactPort

\* execute_visualization: output_format = args.get("output_format", "png")
OutputFormat(fmt) == IF fmt = Absent THEN "png" ELSE fmt

\* execute_visualization: the text appended to the code for a library, as
\* lines.  Only matplotlib and plotly have a branch.
VizTrailer(library, fmt) ==
    IF library = "matplotlib"
    THEN <<"import matplotlib.pyplot as plt",
           "plt.savefig('/app/output." \o fmt \o "')",
           "plt.close()">>
    ELSE IF library = "plotly"
    THEN IF fmt = "html"
         THEN <<"import plotly.offline as pyo",
                "pyo.plot(fig, filename='/app/output.html', auto_open=False)">>
         ELSE <<"fig.write_image('/app/output." \o fmt \o "')">>
    ELSE <<>>

\* execute_visualization: the script written to script.py, as lines: the
\* code, then "\n" and the trailer.
VizScript(code, library, fmt) == code \o VizTrailer(library, OutputFormat(fmt))

\* execute_visualization: the format named in "File saved as output.<format>".
VizReport(fmt) == OutputFormat(fmt)

\* The port a request asks a preview server for, 0 when it is no preview start.
PreviewPort(r) ==
    IF r.method = "tools/call" /\ r.name \in ServeTools
    THEN ServePort(r.name, r) ELSE 0

\* Docker container ids: <<prefix, rest>>, the prefix standing for the first
\* twelve characters.  The daemon hands out ids with distinct prefixes.
ContainerId(n) == <<n, n>>

\* Variant: container.id[:0], one key for every container.
ShortIdEmpty(id) == SubSeq(id, 1, 0)

\* container.id[:12]
ShortId(id) == SubSeq(id, 1, 1)

\* Variant: mkdtemp with an rmtree at the end of the block, no finally.
ExitTempDirOnSuccessOnly(d, ws, exc) == IF exc = "none" THEN d \ {ws} ELSE d

\* tempfile.TemporaryDirectory.__exit__: the directory is removed however
\* the with block is left.
ExitTempDir(d, ws, exc) == d \ {ws}

\* Variant: self.running_containers = {container_id: container}
RegisterReplacingAll(reg, key, container) == [k \in {key} |-> container]

\* self.running_containers[container_id] = container
Register(reg, key, container) ==
    [k \in DOMAIN reg \cup {key} |-> IF k = key THEN container ELSE reg[k]]

\* run_rpc: the response built from the raw result.
ExecuteResponse(raw) == [status |-> "success", outputs |-> raw]

\* ------------------------------------------------------------------ state
VARIABLES
    pc,                 \* per request slot: where its coroutine stands
    req,                \* per slot: the request
    result,             \* per slot: what handle_mcp_request returned
    response,           \* per slot: what run_rpc returned
    outcome,            \* per slot: how the handling went (history)
    effects,            \* per slot: what the call created (history)
    run_timeout,        \* per slot: timeout passed to containers.run, 0 before
    rivals,             \* per slot: the preview starts for the same port that
                        \*   had not returned when this one was submitted
                        \*   (history)
    current,            \* the slot whose coroutine the event loop runs, 0 if none
    disk,               \* temp dirs that exist
    images,             \* images the daemon holds
    containers,         \* containers the daemon holds
    running_containers, \* self.running_containers
    viz                 \* one execute_visualization call: its arguments, the
                        \*   script it writes and the format it reports

vars ==
    <<pc, req, result, response, outcome, effects, run_timeout, rivals,
      current, disk, images, containers, running_containers, viz>>

slotvars ==
    <<pc, req, result, response, outcome, effects, run_timeout, rivals>>

docker == <<images, containers>>

VizArgs(code, library, fmt) ==
    [pc |-> "args", code |-> code, library |-> library, output_format |-> fmt,
     script |-> <<>>, report |-> ""]

\* CodeExecutionMCPServer.__init__ and the module level of main.py.
Init ==
    /\ viz = VizArgs(<<>>, Absent, Absent)
    /\ pc = [t \in Tasks |-> "idle"]
    /\ req = [t \in Tasks |-> NoReq]
    /\ result = [t \in Tasks |-> NoResult]
    /\ response = [t \in Tasks |-> NoResponse]
    /\ outcome = [t \in Tasks |-> "none"]
    /\ effects = [t \in Tasks |-> {}]
    /\ run_timeout = [t \in Tasks |-> 0]
    /\ rivals = [t \in Tasks |-> {}]
    /\ current = 0
    /\ disk = {}
    /\ images = {}
    /\ containers = {}
    /\ running_containers = <<>>

\* Host ports published by the containers that run.
HostPorts == {c.port : c \in containers} \ {0}

\* The tool a slot's coroutine is in.
Tool(t) == Handler(req[t].name)

\* handle_mcp_request returns res to run_rpc, which wraps it in its response
\* model and sends it; the event loop is free for the next coroutine.
Return(t, res, how) ==
    /\ result' = [result EXCEPT ![t] = res]
    /\ response' = [response EXCEPT ![t] = ExecuteResponse(res)]
    /\ outcome' = [outcome EXCEPT ![t] = how]
    /\ pc' = [pc EXCEPT ![t] = "returned"]
    /\ current' = 0

\* The coroutine goes on to its next statement.
Goto(t, label) ==
    /\ pc' = [pc EXCEPT ![t] = label]
    /\ current' = t
    /\ UNCHANGED <<result, response, outcome>>

\* The coroutine waits in a Docker call that does not come back: the event
\* loop stays with it.
Block(t, how) ==
    /\ pc' = [pc EXCEPT ![t] = "blocked"]
    /\ outcome' = [outcome EXCEPT ![t] = how]
    /\ current' = t
    /\ UNCHANGED <<result, response>>

\* ---------------------------------------------------------------- actions
\* A client posts a request; its coroutine waits for the event loop.  Slots
\* are taken in order.
Submit(t, r) ==
    /\ pc[t] = "idle"
    /\ \A u \in Tasks : u < t => pc[u] # "idle"
    /\ pc' = [pc EXCEPT ![t] = "pending"]
    /\ req' = [req EXCEPT ![t] = r]
    /\ rivals' = [rivals EXCEPT ![t] =
           {u \in Tasks : /\ pc[u] \notin {"idle", "returned"}
                          /\ PreviewPort(r) # 0
                          /\ PreviewPort(req[u]) = PreviewPort(r)}]
    /\ UNCHANGED <<viz, result, response, outcome, effects, run_timeout,
                   current, disk, docker, running_containers>>

\* run_rpc and handle_mcp_request up to the await of call_tool.  The event
\* loop takes the coroutines that are ready in the order they were scheduled.
HandleMcpRequest(t) ==
    /\ pc[t] = "pending"
    /\ current = 0
    /\ \A u \in Tasks : u < t => pc[u] # "pending"
    /\ LET branch == MethodBranch(req[t].method) IN
         IF branch = "list_tools" THEN Return(t, Tools, "listed")
         ELSE IF branch = "unknown"
              THEN Return(t, Error("Unknown method", req[t].method), "unknown_method")
         ELSE Goto(t, "call_tool")
    /\ UNCHANGED <<viz, req, rivals, effects, run_timeout, disk, docker,
                   running_containers>>

\* call_tool: dispatch on the tool name, then the handler up to and including
\* the creation of its temp dir.
CallTool(t) ==
    /\ pc[t] = "call_tool"
    /\ LET tool == Tool(t)
           exc == IF tool = "none" THEN "none" ELSE PrologueException(tool, req[t])
       IN IF tool = "none"
          THEN /\ Return(t, Error("Unknown tool", req[t].name), "unknown_tool")
               /\ UNCHANGED <<disk, effects>>
          ELSE IF exc # "none"
          THEN /\ Return(t, CallToolCatch(exc), "bad_arguments")
               /\ UNCHANGED <<disk, effects>>
          ELSE /\ disk' = disk \cup {t}
               /\ effects' = [effects EXCEPT ![t] = @ \cup {"workspace"}]
               /\ Goto(t, "write")
    /\ UNCHANGED <<viz, req, rivals, run_timeout, docker, running_containers>>

\* The handler writes its files into the temp dir.  An exception here is
\* outside the handler's try: it leaves the with statement and reaches
\* call_tool's except.
WriteFiles(t) ==
    /\ pc[t] = "write"
    /\ LET exc == WriteException(Tool(t), req[t]) IN
         IF exc # "none"
         THEN /\ disk' = ExitTempDir(disk, t, exc)
              /\ Return(t, CallToolCatch(exc), "write_failed")
         ELSE /\ Goto(t, "build")
              /\ UNCHANGED disk
    /\ UNCHANGED <<viz, req, rivals, effects, run_timeout, docker,
                   running_containers>>

\* docker_client.images.build(path=temp_dir, tag=...)
Build(t) ==
    /\ pc[t] = "build"
    /\ \E o \in BuildOutcomes :
         IF o = "built"
         THEN /\ images' = images \cup {t}
              /\ effects' = [effects EXCEPT ![t] = @ \cup {"image"}]
              /\ Goto(t, "run")
              /\ UNCHANGED disk
         ELSE IF o = "build_failed"
         THEN /\ disk' = ExitTempDir(disk, t, o)
              /\ Return(t, HandlerCatch(Tool(t), o), o)
              /\ UNCHANGED <<images, effects>>
         ELSE /\ Block(t, o)
              /\ UNCHANGED <<disk, images, effects>>
    /\ UNCHANGED <<viz, req, rivals, run_timeout, containers, running_containers>>

\* execute_python, execute_javascript, execute_visualization:
\* containers.run(image.id, remove=True, stdout=True, stderr=True, timeout=30)
\* and the return.  The container is removed when it has finished; one that
\* was cut off by the time limit has not finished, and may be left.
Run(t) ==
    /\ pc[t] = "run"
    /\ Tool(t) \in ExecTools
    /\ run_timeout' = [run_timeout EXCEPT ![t] = RunTimeLimit(req[t])]
    /\ effects' = [effects EXCEPT ![t] = @ \cup {"container"}]
    /\ \E o \in RunOutcomes, left \in BOOLEAN :
         /\ left => o = "timeout"
         /\ containers' =
              IF left THEN containers \cup {[id |-> ContainerId(t), port |-> 0]}
              ELSE containers
         /\ IF o = "run_hung"
            THEN /\ Block(t, o)
                 /\ UNCHANGED disk
            ELSE IF o = "ok"
            THEN /\ disk' = ExitTempDir(disk, t, "none")
                 /\ Return(t, Content(SuccessPrefix(Tool(t)), 0), o)
            ELSE /\ disk' = ExitTempDir(disk, t, o)
                 /\ Return(t, HandlerCatch(Tool(t), o), o)
    /\ UNCHANGED <<viz, req, rivals, images, running_containers>>

\* serve_html, serve_react:
\* containers.run(image.id, ports={port/tcp: port}, detach=True, remove=True),
\* the registration and the return.  The daemon refuses a host port that a
\* running container has published.
ServeRun(t) ==
    /\ pc[t] = "run"
    /\ Tool(t) \in ServeTools
    /\ LET port == ServePort(Tool(t), req[t])
           container == [id |-> ContainerId(t), port |-> port]
       IN \E o \in IF port \in HostPorts THEN {"bind_failed"}
                   ELSE {"started", "start_failed"} :
            IF o = "started"
            THEN /\ containers' = containers \cup {container}
                 /\ running_containers' =
                      Register(running_containers, ShortId(container.id), container)
                 /\ effects' = [effects EXCEPT ![t] = @ \cup {"container", "registry"}]
                 /\ disk' = ExitTempDir(disk, t, "none")
                 /\ Return(t, Content(SuccessPrefix(Tool(t)), port), o)
            ELSE /\ disk' = ExitTempDir(disk, t, o)
                 /\ Return(t, HandlerCatch(Tool(t), o), o)
                 /\ UNCHANGED <<containers, running_containers, effects>>
    /\ UNCHANGED <<viz, req, rivals, run_timeout, images>>

\* A running container exits; started with remove=True, the daemon removes
\* it.  Nothing in the server hears of it.
ContainerExits(c) ==
    /\ c \in containers
    /\ containers' = containers \ {c}
    /\ UNCHANGED <<viz, slotvars, current, disk, images, running_containers>>

Next ==
    \/ \E t \in Tasks, r \in Requests : Submit(t, r)
    \/ \E t \in Tasks : HandleMcpRequest(t)
    \/ \E t \in Tasks : CallTool(t)
    \/ \E t \in Tasks : WriteFiles(t)
    \/ \E t \in Tasks : Build(t)
    \/ \E t \in Tasks : Run(t)
    \/ \E t \in Tasks : ServeRun(t)
    \/ \E c \in containers : ContainerExits(c)

Spec == Init /\ [][Next]_vars

\* The well-formed calls of the execution tools, next to a call that is
\* rejected and a preview start.
LiveRequests ==
    {r \in Requests :
        /\ r.method = "tools/call"
        /\ r.argkind = "dict"
        /\ r.payload = "str"
        /\ r.name \in ExecTools \/ (r.name = "serve_html" /\ r.port = AbsentInt)}

LiveNext ==
    \/ \E t \in Tasks, r \in LiveRequests : Submit(t, r)
    \/ \E t \in Tasks : HandleMcpRequest(t)
    \/ \E t \in Tasks : CallTool(t)
    \/ \E t \in Tasks : WriteFiles(t)
    \/ \E t \in Tasks : Build(t)
    \/ \E t \in Tasks : Run(t)
    \/ \E t \in Tasks : ServeRun(t)
    \/ \E c \in containers : ContainerExits(c)

\* The event loop runs a coroutine that can take a step; a Docker call that
\* does not come back is no step.
Fairness ==
    \A t \in Tasks :
        WF_vars(HandleMcpRequest(t) \/ CallTool(t) \/ WriteFiles(t) \/ Build(t)
                \/ Run(t) \/ ServeRun(t))

LiveSpec == Init /\ [][LiveNext]_vars /\ Fairness

\* execute_visualization as a function of its arguments: the code (lines
\* drawn from two), the library and the output format.
CodeLines == {"df = load()", "fig = chart(df)"}

Codes == UNION {[1..n -> CodeLines] : n \in 0..MaxCodeLines}

VizInit ==
    /\ pc = [t \in Tasks |-> "idle"]
    /\ req = [t \in Tasks |-> NoReq]
    /\ result = [t \in Tasks |-> NoResult]
    /\ response = [t \in Tasks |-> NoResponse]
    /\ outcome = [t \in Tasks |-> "none"]
    /\ effects = [t \in Tasks |-> {}]
    /\ run_timeout = [t \in Tasks |-> 0]
    /\ rivals = [t \in Tasks |-> {}]
    /\ current = 0
    /\ disk = {}
    /\ images = {}
    /\ containers = {}
    /\ running_containers = <<>>
    /\ \E code \in Codes, library \in VizLibraries,
          fmt \in VizFormats \cup {Absent} :
            viz = VizArgs(code, library, fmt)

\* execute_visualization from its first statement to the write of script.py,
\* and the format its result names.
ExecuteVisualization ==
    /\ viz.pc = "args"
    /\ viz' = [viz EXCEPT
                 !.pc = "written",
                 !.script = VizScript(viz.code, viz.library, viz.output_format),
                 !.report = VizReport(viz.output_format)]
    /\ UNCHANGED <<slotvars, current, disk, docker, running_containers>>

VizNext == ExecuteVisualization

VizSpec == VizInit /\ [][VizNext]_vars

\* ------------------------------------------------------------ vocabulary
IsToolCall(t) == req[t].method = "tools/call"

Returned(t) == pc[t] = "returned"

\* The handling of the request failed.
FailureOutcomes ==
    {"unknown_method", "unknown_tool", "bad_arguments", "write_failed",
     "build_failed", "run_failed", "timeout", "start_failed", "bind_failed"}

Failed(t) == outcome[t] \in FailureOutcomes

\* A well-formed call of an execution tool: the code is a string.
ValidExec(t) ==
    /\ IsToolCall(t)
    /\ req[t].name \in ExecTools
    /\ req[t].argkind = "dict"
    /\ req[t].payload = "str"
    /\ req[t].name = "execute_visualization" => req[t].library # Absent

\* ------------------------------------------------------------------ C1
\* C1: when a tool call that created a temp dir has returned, with whatever
\* outcome, that temp dir no longer exists; while no call is running, no temp
\* dir is on disk.
WorkspaceRemovedOnReturn ==
    /\ \A t \in Tasks : Returned(t) => t \notin disk
    /\ current = 0 => disk = {}

\* Calls that created a temp dir and left it through an exception of the
\* write step and through a run cut off by the time limit.
WorkspaceRemovedOnReturnWitness ==
    \E t, u \in Tasks :
        /\ Returned(t) /\ "workspace" \in effects[t] /\ outcome[t] = "write_failed"
        /\ Returned(u) /\ "workspace" \in effects[u] /\ outcome[u] = "timeout"

EveryDispatchReturns ==
    \A t \in Tasks :
        (pc[t] = "call_tool" /\ ValidExec(t)) ~> (Returned(t) /\ t \notin disk)

\* C3 amended: every dispatch of a valid execution request eventually returns
\* and leaves no temp dir, whatever the run step does, unless its build step
\* never completes.
DispatchReturnsUnlessBuildHangs ==
    \A t \in Tasks :
        (pc[t] = "call_tool" /\ ValidExec(t))
            ~> ((Returned(t) /\ t \notin disk) \/ outcome[t] = "build_hung")

\* A valid execution whose run did not end by itself has returned.
DispatchReturnsWitness ==
    \E t \in Tasks :
        ValidExec(t) /\ Returned(t) /\ outcome[t] = "timeout" /\ t \notin disk

\* ------------------------------------------------------------------ C4
\* C4: no two entries of running_containers have the same port.
PortRegisteredOnce ==
    \A k1, k2 \in DOMAIN running_containers :
        running_containers[k1].port = running_containers[k2].port => k1 = k2

\* ------------------------------------------------------------------ C5
\* C5: when an execute_python, execute_javascript or execute_visualization
\* call has returned, the image built for it and the container run from it
\* are gone.
ImageAndContainerRemoved ==
    \A t \in Tasks :
        (Returned(t) /\ IsToolCall(t) /\ req[t].name \in ExecTools) =>
            /\ t \notin images
            /\ \A c \in containers : c.id # ContainerId(t)

\* ------------------------------------------------------------------ C6
\* The class of a result: its key and the fixed part of its message.
Classification(res) == <<res.key, res.prefix>>

\* C6: the result of a run that exceeded its time bound never has the class
\* of the result of another build or run failure.
TimeoutClassifiedApart ==
    \A t, u \in Tasks :
        (/\ Returned(t) /\ outcome[t] = "timeout"
         /\ Returned(u) /\ outcome[u] \in {"build_failed", "run_failed"})
            => Classification(result[t]) # Classification(result[u])

\* ------------------------------------------------------------------ C7
\* C7: a failed handling ends in an error result and an error status of the
\* /run response; a success status is reported only for a success.
ErrorStatusOnFailure ==
    \A t \in Tasks :
        Returned(t) =>
            /\ Failed(t) => result[t].key = "error" /\ response[t].status = "error"
            /\ response[t].status = "success" => ~Failed(t)

\* ------------------------------------------------------------------ C8
\* C8: a tools/call whose tool name is not in the catalog returns the
\* unknown-tool error, which no other outcome returns, creates nothing, and
\* leaves the event loop free.
UnknownToolRejected ==
    \A t \in Tasks :
        (Returned(t) /\ IsToolCall(t)) =>
            /\ req[t].name \notin ListedTools =>
                 /\ result[t] = Error("Unknown tool", req[t].name)
                 /\ effects[t] = {}
                 /\ current # t
            /\ req[t].name \in ListedTools => result[t].prefix # "Unknown tool"

\* An unknown tool was answered and a later request was served after it.
UnknownToolRejectedWitness ==
    \E t, u \in Tasks :
        /\ t < u
        /\ Returned(t) /\ IsToolCall(t) /\ req[t].name = "execute_shell"
        /\ Returned(u) /\ outcome[u] = "ok"

\* ------------------------------------------------------------------ C9
\* The fields the claim names as required.
NamedRequired(name) ==
    IF name = "execute_visualization" THEN {"payload", "library"} ELSE {"payload"}

LacksRequired(t) ==
    /\ IsToolCall(t)
    /\ req[t].name \in ListedTools
    /\ req[t].argkind # "null"
    /\ req[t].argkind = Absent \/ \E f \in NamedRequired(req[t].name) : req[t][f] = Absent

\* C9: a tool call that lacks a required field creates no temp dir, image,
\* container or registry entry at any time, and returns an error.
MissingFieldRejected ==
    \A t \in Tasks :
        LacksRequired(t) =>
            /\ effects[t] = {}
            /\ Returned(t) => result[t].key = "error"

\* An execute_visualization call with code and no library, and a serve_html
\* call with no arguments at all, have returned.
MissingFieldRejectedWitness ==
    \E t, u \in Tasks :
        /\ Returned(t) /\ IsToolCall(t) /\ req[t].name = "execute_visualization"
        /\ req[t].payload = "str" /\ req[t].library = Absent
        /\ Returned(u) /\ IsToolCall(u) /\ req[u].name = "serve_html"
        /\ req[u].argkind = Absent

\* ------------------------------------------------------------------ C10
Clamp(x, lo, hi) == IF x < lo THEN lo ELSE IF x > hi THEN hi ELSE x

Requested(t) ==
    IF req[t].timeout_seconds = AbsentInt THEN DefaultTimeout
    ELSE req[t].timeout_seconds

OneOfTwoStartsWins ==
    \A t, u \in Tasks :
        (/\ t \in rivals[u]
         /\ Returned(t) /\ outcome[t] \in {"started", "bind_failed"}
         /\ Returned(u) /\ outcome[u] \in {"started", "bind_failed"})
            => /\ {outcome[t], outcome[u]} = {"started", "bind_failed"}
               /\ \E w \in {t, u} :
                    /\ outcome[w] = "started"
                    /\ ShortId(ContainerId(w)) \in DOMAIN running_containers

\* ------------------------------------------------------------------ C16
\* C16: while one dispatch waits for its build or run step to complete, the
\* request that is next in line can start.
WaitingDispatchYields ==
    \A t, u \in Tasks :
        (/\ pc[t] \in {"build", "run", "blocked"}
         /\ pc[u] = "pending"
         /\ \A v \in Tasks : v < u => pc[v] # "pending")
            => ENABLED HandleMcpRequest(u)

\* ------------------------------------------------------------------ C13
\* C13: the script written for an execute_visualization request is the user's
\* code, unchanged and in order, followed by save-output instructions for the
\* library and format, and the result names the declared format (png when
\* none is given).
VizScriptSavesOutput ==
    viz.pc = "written" =>
        /\ Len(viz.script) > Len(viz.code)
        /\ SubSeq(viz.script, 1, Len(viz.code)) = viz.code
        /\ viz.report = IF viz.output_format = Absent THEN "png"
                        ELSE viz.output_format

\* ------------------------------------------------------------------ C14
\* The registry key of the container a slot's preview start creates.
KeyOf(t) == ShortId(ContainerId(t))

StartFailures == {"start_failed", "bind_failed"}

\* C14: the registry holds an entry for a preview server exactly when the
\* Docker run call for that server has returned successfully; the entry is
\* keyed by the container's id and holds that container, it stays once it is
\* there, and a failed start leaves none.
RegisteredExactlyOnStart ==
    \A t \in Tasks :
        /\ KeyOf(t) \in DOMAIN running_containers
             <=> (Returned(t) /\ outcome[t] = "started")
        /\ KeyOf(t) \in DOMAIN running_containers
             => running_containers[KeyOf(t)].id = ContainerId(t)

\* One start succeeded and is registered, then another failed and left no
\* entry while the first is still there.
RegisteredExactlyOnStartWitness ==
    \E t, u \in Tasks :
        /\ t < u
        /\ Returned(t) /\ outcome[t] = "started"
        /\ KeyOf(t) \in DOMAIN running_containers
        /\ Returned(u) /\ outcome[u] \in StartFailures
        /\ KeyOf(u) \notin DOMAIN running_containers

\* ------------------------------------------------------------------ C15
\* The host port a preview request asks for: the one it gives, else 8080 for
\* serve_html and 3000 for serve_react.
AskedPort(t) ==
    IF req[t].port # AbsentInt THEN req[t].port
    ELSE IF req[t].name = "serve_html" THEN 8080 ELSE 3000

\* C15: a preview server that started published exactly the port asked for
\* (8080 for HTML and 3000 for React when none is given) and its URL names
\* that port; a start whose port cannot be bound returns an error and has
\* started no container on any port.
PreviewBindsAskedPort ==
    \A t \in Tasks :
        /\ (Returned(t) /\ outcome[t] = "started") =>
             /\ result[t].key = "content"
             /\ result[t].port = AskedPort(t)
             /\ running_containers[KeyOf(t)].port = AskedPort(t)
        /\ (Returned(t) /\ outcome[t] = "bind_failed") =>
             /\ result[t].key = "error"
             /\ "container" \notin effects[t]
             /\ \A c \in containers : c.id # ContainerId(t)

\* A start on a default port and a start on a given port have both returned,
\* one started and the other refused for the port.
PreviewBindsAskedPortWitness ==
    \E t, u \in Tasks :
        /\ Returned(t) /\ outcome[t] = "started"
        /\ Returned(u) /\ outcome[u] = "bind_failed"
        /\ req[t].port = AbsentInt
        /\ req[u].port # AbsentInt

\* ------------------------------------------------------------------ C17
\* The tool names a request can carry.
ToolNames == {r.name : r \in Requests} \cup ListedTools

\* C17: the tool names call_tool dispatches to a handler are exactly the
\* names list_tools advertises: a call with a listed name is never answered
\* as an unknown tool, a call with any other name always is.
DispatchedAreListed ==
    /\ {n \in ToolNames : Handler(n) # "none"} = ListedTools
    /\ \A t \in Tasks :
         (Returned(t) /\ IsToolCall(t)) =>
             (req[t].name \in ListedTools <=> outcome[t] # "unknown_tool")

\* An execute_visualization call went through its handler and a call with an
\* unlisted name was turned away.
DispatchedAreListedWitness ==
    \E t, u \in Tasks :
        /\ Returned(t) /\ IsToolCall(t)
        /\ req[t].name = "execute_visualization"
        /\ outcome[t] \in {"ok", "run_failed"}
        /\ Returned(u) /\ IsToolCall(u)
        /\ req[u].name \notin ListedTools
        /\ outcome[u] = "unknown_tool"

\* ------------------------------------------------------------------ C18
\* C18: what call_tool returns carries exactly one of the keys "error" and
\* "content", whatever the tool and however the call ended.
ErrorOrContent ==
    \A t \in Tasks :
        (Returned(t) /\ IsToolCall(t)) =>
            /\ result[t].key \in {"error", "content"}
            /\ result[t].key = "error" <=> Failed(t)
            /\ response[t].outputs = result[t]

\* A call that failed inside its handler returned an error and a call that
\* succeeded returned content.
ErrorOrContentWitness ==
    \E t, u \in Tasks :
        /\ Returned(t) /\ IsToolCall(t)
        /\ outcome[t] \in {"build_failed", "run_failed", "start_failed"}
        /\ result[t].key = "error"
        /\ Returned(u) /\ IsToolCall(u)
        /\ outcome[u] = "ok"
        /\ result[u].key = "content"

\* ------------------------------------------------------------------ C19
\* A step in which slot t's preview start returns successfully.
StartsPreview(t) ==
    /\ pc[t] = "run" /\ Tool(t) \in ServeTools
    /\ pc'[t] = "returned" /\ outcome'[t] = "started"

\* The registry after the step is the registry before it plus one new key.
AddsOneEntry ==
    /\ \E k \in DOMAIN running_containers' :
         /\ k \notin DOMAIN running_containers
         /\ DOMAIN running_containers' = DOMAIN running_containers \cup {k}
    /\ \A k \in DOMAIN running_containers :
         running_containers'[k] = running_containers[k]

\* C19: a successful serve_html or serve_react adds exactly one entry to the
\* registry, and no other step of any operation changes the registry.
OnlyPreviewStartRegisters ==
    [][IF \E t \in Tasks : StartsPreview(t)
       THEN AddsOneEntry
       ELSE running_containers' = running_containers]_vars

\* Two preview starts have succeeded and the registry has two entries.
OnlyPreviewStartRegistersWitness ==
    /\ Cardinality(DOMAIN running_containers) = 2
    /\ \A t \in Tasks : Returned(t) /\ outcome[t] = "started"

====
